---- MODULE Spec2Model ----
(***************************************************************************)
(* A model of the connection plane of hotafrika/tcp_proxy_epoll: one       *)
(* frontend, its application and backend, and one tunnel (a pair of        *)
(* PipedConn sharing one sync.Once), with the goroutines that serve it:    *)
(* frontend.run / backend.run, listenForNewConn, handleNewConnection,      *)
(* listenEpoll + serveEvent, serveConn, the finalize goroutines and        *)
(* runHealthcheck.  The peers (client, target) and the cancellation of the *)
(* context are the environment.                                            *)
(*                                                                         *)
(* A socket is named by the pair it belongs to and its end: "c" is the     *)
(* accepted client socket, "b" the dialed backend socket.  A PipedConn is  *)
(* named by the socket it reads (its embedded *Conn); its pipeTo is the    *)
(* other socket of the pair.  Each socket has its own descriptor, so the   *)
(* connections maps and the epoll interest lists are sets of sockets.      *)
(***************************************************************************)
EXTENDS Integers, Sequences, FiniteSets, Bags, TLC

\* ---------------------------------------------------------------- bounds

\* bytes the two peers of a tunnel write, in all
MaxData == 2
\* goroutines spawned by serveEvent that are alive at the same time
MaxTasks == 3
\* the copy buffer's length (4*1024 in the code), scaled down
BufLen == 1
\* bytes the two peers write in the specification checked under fairness
LiveData == 1
\* backends and connection counts of the inputs given to nextBackend
NumBnds == 3
MaxCount == 2
\* client connections opened one after another
MaxConns == 60

\* ------------------------------------------------------------ the objects

Pairs == {1}
Ends == {"c", "b"}
Socks == Pairs \X Ends
Bnds == <<"B1">>
Backends == {Bnds[i] : i \in 1..Len(Bnds)}
Mgrs == {"F"} \cup Backends

VARIABLES
    ctxDone,      \* the context is cancelled
    active,       \* backend.active
    hc,           \* runHealthcheck of each backend: its position
    lastConnect,  \* history: outcome of the connect attempt completed last
    lastRecorded, \* history: outcome of the last health attempt or failed client dial
    run,          \* frontend.run / backend.run: its position
    iterSeen,     \* the connections a run's shutdown iteration has visited
    acceptor,     \* listenForNewConn: its position
    hnc,          \* handleNewConnection of each pair: position, chosen backend
    est,          \* the socket exists (accepted or dialed)
    closed,       \* Conn.closed
    osCloses,     \* times the OS close was invoked on the socket
    closeCalls,   \* history: times Conn.Close was called on the socket
    rx,           \* bytes received from the peer, not yet read by the proxy
    sentN,        \* bytes the peer has written so far (it writes 1, 2, ...)
    peerFin,      \* the peer has closed its sending side
    peerRst,      \* the peer has reset the connection
    out,          \* bytes the proxy has written to the socket
    connections,  \* the connections map of each manager
    registered,   \* the sockets in each manager's epoll interest list
    epollClosed,  \* the manager's epoll descriptor is closed
    underIO,      \* PipedConn.underIO
    once,         \* the pair's sync.Once: "new", "running" or "done"
    finalizeRuns, \* history: times the body of finalize was entered
    lep,          \* listenEpoll of each manager: position, events, conn
    tasks,        \* the goroutines spawned by serveEvent (a bag)
    nb,           \* inputs and result of a nextBackend call on its own
    px,           \* start-up on its own: the configuration, NewProxy, Proxy.Run
    fdr           \* descriptor numbers on their own: fd table, fd-keyed maps

vars == <<ctxDone, active, hc, lastConnect, lastRecorded, run, iterSeen,
          acceptor, hnc, est, closed, osCloses, closeCalls, rx, sentN,
          peerFin, peerRst, out, connections, registered, epollClosed,
          underIO, once, finalizeRuns, lep, tasks, nb, px, fdr>>

\* ------------------------------------------------------------- helpers

pipeTo(s) == <<s[1], IF s[2] = "c" THEN "b" ELSE "c">>

\* Conn.manager: the frontend for an accepted socket, the chosen backend
\* for a dialed one
manager(s) == IF s[2] = "c" THEN "F" ELSE hnc[s[1]].bk

osOpen(s) == est[s] /\ osCloses[s] = 0

Min(a, b) == IF a < b THEN a ELSE b

Take(q, k) == SubSeq(q, 1, Min(k, Len(q)))
Drop(q, k) == SubSeq(q, Min(k, Len(q)) + 1, Len(q))

IsPrefix(p, q) == Len(p) <= Len(q) /\ SubSeq(q, 1, Len(p)) = p

\* what the peer of socket s has written: the bytes 1 .. sentN[s]
Sent(s) == [i \in 1..sentN[s] |-> i]


\* unix epoll: the events reported for a registered socket (level-triggered,
\* epoll_linux.go:34): EPOLLIN while data, an end-of-stream or an error
\* can be read, EPOLLRDHUP once the peer has shut down, EPOLLHUP on reset
Mask(s) ==
    (IF rx[s] # <<>> \/ peerFin[s] \/ peerRst[s] THEN {"IN"} ELSE {})
    \cup (IF peerFin[s] \/ peerRst[s] THEN {"RDHUP"} ELSE {})
    \cup (IF peerRst[s] THEN {"HUP"} ELSE {})

Ready(m) == {s \in registered[m] : Mask(s) # {}}

\* all orderings of a finite set as sequences
Orderings(S) ==
    {q \in [1..Cardinality(S) -> S] : \A i, j \in 1..Cardinality(S) : q[i] = q[j] => i = j}

\* backend.getConnCount
getConnCount(b) == Cardinality(connections[b])

\* the RWMutex of a manager is read-locked by its run's shutdown iteration
rlocked(m) == run[m] = "iter"

\* --------------------------------------------------- application.nextBackend

\* One iteration of the loop of nextBackend on backend i, from the loop's
\* state st = [next, min]; act[i] and cnt[i] are the backend's active flag
\* and connection count.
nextBackendStepFirst(st, i, act, cnt) ==
    IF act[i] /\ st.next = 0 THEN [next |-> i, min |-> cnt[i]] ELSE st

nextBackendStep(st, i, act, cnt) ==
    IF ~act[i] THEN st
    ELSE IF st.next = 0 THEN [next |-> i, min |-> cnt[i]]
    ELSE IF cnt[i] < st.min THEN [next |-> i, min |-> st.min]
    ELSE st

RECURSIVE nextBackendLoop(_, _, _, _)
nextBackendLoop(st, i, act, cnt) ==
    IF i > Len(act) THEN st
    ELSE nextBackendLoop(nextBackendStep(st, i, act, cnt), i + 1, act, cnt)

\* the index of the backend returned, 0 for errNoActiveBackend
nextBackend(act, cnt) == nextBackendLoop([next |-> 0, min |-> 0], 1, act, cnt).next

\* ------------------------------------------------------------ Conn.Close

\* closed.CompareAndSwap(false, true)
CloseWinsAlways(s) == TRUE

CloseWinsNever(s) == FALSE

CloseWins(s) == ~closed[s]

\* Conn.Close: the net.Conn is closed when the compare-and-swap succeeds;
\* the kernel drops a closed socket from every epoll interest list
CloseConn(s) ==
    /\ closeCalls' = [closeCalls EXCEPT ![s] = @ + 1]
    /\ closed' = [closed EXCEPT ![s] = TRUE]
    /\ osCloses' = [osCloses EXCEPT ![s] = IF CloseWins(s) THEN @ + 1 ELSE @]
    /\ registered' = IF CloseWins(s)
                     THEN [m \in Mgrs |-> registered[m] \ {s}]
                     ELSE registered

closeVars == <<closeCalls, closed, osCloses, registered>>

\* backend.setActive: active.CompareAndSwap(!t, t)
setActiveStuck(a, t) == IF a = t THEN t ELSE a

setActiveDownOnly(a, t) == IF t THEN a ELSE FALSE

setActive(a, t) == IF a = ~t THEN t ELSE a

\* -------------------------------------------------------------- Init

NoNb == [act |-> <<>>, cnt |-> <<>>, res |-> 0, called |-> FALSE]

\* start-up not looked at: an empty configuration, NewProxy not yet called
NoPx == [cfg |-> <<>>, pc |-> "new", i |-> 1, t |-> 1, j |-> 1,
         bnds |-> <<>>, fnds |-> <<>>, fpc |-> <<>>]

\* descriptor numbers not looked at: no socket has one
NoFdr == [pc |-> <<>>, by |-> <<>>, fd |-> <<>>, open |-> {},
          conns |-> <<>>, reg |-> <<>>]

InitProxy ==
    /\ ctxDone = FALSE
    /\ active = [b \in Backends |-> FALSE]
    /\ hc = [b \in Backends |-> "idle"]
    /\ lastConnect = [b \in Backends |-> "none"]
    /\ lastRecorded = [b \in Backends |-> "none"]
    /\ run = [m \in Mgrs |-> IF m = "F" THEN "bind" ELSE "start"]
    /\ iterSeen = [m \in Mgrs |-> {}]
    /\ acceptor = "idle"
    /\ hnc = [p \in Pairs |-> [pc |-> "none", bk |-> Bnds[1], saw |-> FALSE]]
    /\ est = [s \in Socks |-> FALSE]
    /\ closed = [s \in Socks |-> FALSE]
    /\ osCloses = [s \in Socks |-> 0]
    /\ closeCalls = [s \in Socks |-> 0]
    /\ rx = [s \in Socks |-> <<>>]
    /\ sentN = [s \in Socks |-> 0]
    /\ peerFin = [s \in Socks |-> FALSE]
    /\ peerRst = [s \in Socks |-> FALSE]
    /\ out = [s \in Socks |-> <<>>]
    /\ connections = [m \in Mgrs |-> {}]
    /\ registered = [m \in Mgrs |-> {}]
    /\ epollClosed = [m \in Mgrs |-> FALSE]
    /\ underIO = [s \in Socks |-> FALSE]
    /\ once = [p \in Pairs |-> "new"]
    /\ finalizeRuns = [p \in Pairs |-> 0]
    /\ lep = [m \in Mgrs |-> [pc |-> "idle", batch |-> <<>>]]
    /\ tasks = EmptyBag

Init == InitProxy /\ nb = NoNb /\ px = NoPx /\ fdr = NoFdr

healthVars == <<active, hc, lastConnect, lastRecorded>>
peerVars == <<rx, sentN, peerFin, peerRst, out>>
mapVars == <<connections, epollClosed>>
legVars == <<underIO, once, finalizeRuns>>

\* ------------------------------------------------------ the environment

\* the caller's context is cancelled (a signal)
Cancel ==
    /\ ~ctxDone
    /\ ctxDone' = TRUE
    /\ UNCHANGED <<healthVars, run, iterSeen, acceptor, hnc, est, closeVars,
                   peerVars, mapVars, legVars, lep, tasks, nb, px, fdr>>

\* the peer of socket s writes its next byte, while the two peers of the
\* pair have written fewer than max bytes
PeerSendUpTo(s, max) ==
    /\ osOpen(s) /\ ~peerFin[s] /\ ~peerRst[s]
    /\ sentN[s] + sentN[pipeTo(s)] < max
    /\ sentN' = [sentN EXCEPT ![s] = @ + 1]
    /\ rx' = [rx EXCEPT ![s] = Append(@, sentN[s] + 1)]
    /\ UNCHANGED <<ctxDone, healthVars, run, iterSeen, acceptor, hnc, est,
                   closeVars, peerFin, peerRst, out, mapVars, legVars, lep,
                   tasks, nb, px, fdr>>

PeerSend(s) == PeerSendUpTo(s, MaxData)

\* the peer of socket s closes its sending side (FIN)
PeerFin(s) ==
    /\ osOpen(s) /\ ~peerFin[s] /\ ~peerRst[s]
    /\ peerFin' = [peerFin EXCEPT ![s] = TRUE]
    /\ UNCHANGED <<ctxDone, healthVars, run, iterSeen, acceptor, hnc, est,
                   closeVars, rx, sentN, peerRst, out, mapVars, legVars, lep,
                   tasks, nb, px, fdr>>

\* the peer of socket s resets the connection (RST): unread bytes are lost
PeerRst(s) ==
    /\ osOpen(s) /\ ~peerRst[s]
    /\ peerRst' = [peerRst EXCEPT ![s] = TRUE]
    /\ rx' = [rx EXCEPT ![s] = <<>>]
    /\ UNCHANGED <<ctxDone, healthVars, run, iterSeen, acceptor, hnc, est,
                   closeVars, sentN, peerFin, out, mapVars, legVars, lep,
                   tasks, nb, px, fdr>>

\* ------------------------------------------- frontend.run, backend.run

\* frontend.run starting its loops whatever ListenTCP returned
RunBindEager ==
    /\ run["F"] = "bind"
    /\ IF ctxDone
       THEN /\ run' = [run EXCEPT !["F"] = "done"]
            /\ UNCHANGED <<lep, acceptor>>
       ELSE \E ok \in BOOLEAN :
              /\ run' = [run EXCEPT !["F"] = IF ok THEN "serve" ELSE "bind"]
              /\ lep' = [lep EXCEPT !["F"].pc = "wait"]
              /\ acceptor' = "accept"
    /\ UNCHANGED <<ctxDone, healthVars, iterSeen, hnc, est, closeVars,
                   peerVars, mapVars, legVars, tasks, nb, px, fdr>>

\* frontend.run, the bind loop: return when the context is done, else
\* ListenTCP; on success start listenEpoll and listenForNewConn
RunBind ==
    /\ run["F"] = "bind"
    /\ IF ctxDone
       THEN /\ run' = [run EXCEPT !["F"] = "done"]
            /\ UNCHANGED <<lep, acceptor>>
       ELSE \E ok \in BOOLEAN :
              IF ok
              THEN /\ run' = [run EXCEPT !["F"] = "serve"]
                   /\ lep' = [lep EXCEPT !["F"].pc = "wait"]
                   /\ acceptor' = "accept"
              ELSE UNCHANGED <<run, lep, acceptor>>
    /\ UNCHANGED <<ctxDone, healthVars, iterSeen, hnc, est, closeVars,
                   peerVars, mapVars, legVars, tasks, nb, px, fdr>>

\* backend.run: start runHealthcheck and listenEpoll
RunStart(b) ==
    /\ run[b] = "start"
    /\ run' = [run EXCEPT ![b] = "serve"]
    /\ hc' = [hc EXCEPT ![b] = "dial"]
    /\ lep' = [lep EXCEPT ![b].pc = "wait"]
    /\ UNCHANGED <<ctxDone, active, lastConnect, lastRecorded, iterSeen,
                   acceptor, hnc, est, closeVars, peerVars, mapVars, legVars,
                   tasks, nb, px, fdr>>

\* run: <-ctx.Done()
RunWaitBackendOnly(m) ==
    /\ m # "F"
    /\ run[m] = "serve" /\ ctxDone
    /\ run' = [run EXCEPT ![m] = "closeE"]
    /\ UNCHANGED <<ctxDone, healthVars, iterSeen, acceptor, hnc, est,
                   closeVars, peerVars, mapVars, legVars, lep, tasks, nb, px, fdr>>

RunWait(m) ==
    /\ run[m] = "serve" /\ ctxDone
    /\ run' = [run EXCEPT ![m] = IF m = "F" THEN "closeL" ELSE "closeE"]
    /\ UNCHANGED <<ctxDone, healthVars, iterSeen, acceptor, hnc, est,
                   closeVars, peerVars, mapVars, legVars, lep, tasks, nb, px, fdr>>

\* frontend.run: tcpListener.Close()
RunCloseListener ==
    /\ run["F"] = "closeL"
    /\ run' = [run EXCEPT !["F"] = "closeE"]
    /\ UNCHANGED <<ctxDone, healthVars, iterSeen, acceptor, hnc, est,
                   closeVars, peerVars, mapVars, legVars, lep, tasks, nb, px, fdr>>

\* run: epoller.Close()
RunCloseEpoll(m) ==
    /\ run[m] = "closeE"
    /\ run' = [run EXCEPT ![m] = "rlock"]
    /\ epollClosed' = [epollClosed EXCEPT ![m] = TRUE]
    /\ registered' = [registered EXCEPT ![m] = {}]
    /\ UNCHANGED <<ctxDone, healthVars, iterSeen, acceptor, hnc, est,
                   closeCalls, closed, osCloses, peerVars, connections,
                   legVars, lep, tasks, nb, px, fdr>>

\* run: rmu.RLock()
RunRLock(m) ==
    /\ run[m] = "rlock"
    /\ run' = [run EXCEPT ![m] = "iter"]
    /\ UNCHANGED <<ctxDone, healthVars, iterSeen, acceptor, hnc, est,
                   closeVars, peerVars, mapVars, legVars, lep, tasks, nb, px, fdr>>

\* run: one conn.Close() of the iteration over the connections map, or
\* the end of the iteration (the deferred RUnlock and wg.Done)
RunIter(m) ==
    /\ run[m] = "iter"
    /\ IF connections[m] \ iterSeen[m] # {}
       THEN \E s \in connections[m] \ iterSeen[m] :
              /\ CloseConn(s)
              /\ iterSeen' = [iterSeen EXCEPT ![m] = @ \cup {s}]
              /\ UNCHANGED run
       ELSE /\ run' = [run EXCEPT ![m] = "done"]
            /\ UNCHANGED <<iterSeen, closeVars>>
    /\ UNCHANGED <<ctxDone, healthVars, acceptor, hnc, est, peerVars,
                   mapVars, legVars, lep, tasks, nb, px, fdr>>

\* frontend.tcpListener is open
listening == run["F"] \in {"serve", "closeL"}

\* ------------------------------------------------- listenForNewConn

\* listenForNewConn returns: the context is done at the select, or
\* AcceptTCP fails with "use of closed network connection"
AcceptorExit ==
    /\ acceptor = "accept"
    /\ ctxDone \/ ~listening
    /\ acceptor' = "exit"
    /\ UNCHANGED <<ctxDone, healthVars, run, iterSeen, hnc, est, closeVars,
                   peerVars, mapVars, legVars, lep, tasks, nb, px, fdr>>

\* AcceptTCP returns a client connection: go handleNewConnection
Accept(p) ==
    /\ acceptor = "accept" /\ listening
    /\ hnc[p].pc = "none"
    /\ est' = [est EXCEPT ![<<p, "c">>] = TRUE]
    /\ hnc' = [hnc EXCEPT ![p].pc = "next"]
    /\ acceptor' = "accept"
    /\ UNCHANGED <<ctxDone, healthVars, run, iterSeen, closeVars, peerVars,
                   mapVars, legVars, lep, tasks, nb, px, fdr>>

\* ---------------------------------------------------- runHealthcheck

\* DialContext of the health check returns (it fails once the context is done)
HcDial(b) ==
    /\ hc[b] = "dial"
    /\ \E ok \in BOOLEAN :
         /\ ok => ~ctxDone
         /\ hc' = [hc EXCEPT ![b] = IF ok THEN "ok" ELSE "fail"]
    /\ UNCHANGED <<ctxDone, active, lastConnect, lastRecorded, run, iterSeen,
                   acceptor, hnc, est, closeVars, peerVars, mapVars, legVars,
                   lep, tasks, nb, px, fdr>>

\* the health check records the outcome: setActive(true) or setActive(false)
HcSetActive(b) ==
    /\ hc[b] \in {"ok", "fail"}
    /\ active' = [active EXCEPT ![b] = setActive(@, hc[b] = "ok")]
    /\ lastConnect' = [lastConnect EXCEPT ![b] = hc[b]]
    /\ lastRecorded' = [lastRecorded EXCEPT ![b] = hc[b]]
    /\ hc' = [hc EXCEPT ![b] = "tick"]
    /\ UNCHANGED <<ctxDone, run, iterSeen, acceptor, hnc, est, closeVars,
                   peerVars, mapVars, legVars, lep, tasks, nb, px, fdr>>

\* the select of the loop: return on ctx.Done(), dial again on a tick
HcTick(b) ==
    /\ hc[b] = "tick"
    /\ \/ ctxDone /\ hc' = [hc EXCEPT ![b] = "exit"]
       \/ hc' = [hc EXCEPT ![b] = "dial"]
    /\ UNCHANGED <<ctxDone, active, lastConnect, lastRecorded, run, iterSeen,
                   acceptor, hnc, est, closeVars, peerVars, mapVars, legVars,
                   lep, tasks, nb, px, fdr>>

\* ------------------------------------------------ handleNewConnection

\* createRemoteConnection: nextBackend over the application's backends
HncNextBackend(p) ==
    /\ hnc[p].pc = "next"
    /\ LET r == nextBackend([i \in 1..Len(Bnds) |-> active[Bnds[i]]],
                            [i \in 1..Len(Bnds) |-> getConnCount(Bnds[i])])
       IN hnc' = IF r = 0
                 THEN [hnc EXCEPT ![p].pc = "closeCli"]
                 ELSE [hnc EXCEPT ![p].pc = "dial", ![p].bk = Bnds[r]]
    /\ UNCHANGED <<ctxDone, healthVars, run, iterSeen, acceptor, est,
                   closeVars, peerVars, mapVars, legVars, lep, tasks, nb, px, fdr>>

\* backend.createConn: DialContext returns; on success the connection is
\* returned as it is and wrapped by newConn
HncDial(p) ==
    /\ hnc[p].pc = "dial"
    /\ \E ok \in BOOLEAN :
         /\ ok => ~ctxDone
         /\ IF ok
            THEN /\ est' = [est EXCEPT ![<<p, "b">>] = TRUE]
                 /\ lastConnect' = [lastConnect EXCEPT ![hnc[p].bk] = "ok"]
                 /\ hnc' = [hnc EXCEPT ![p].pc = "addF"]
            ELSE /\ hnc' = [hnc EXCEPT ![p].pc = "dialfail"]
                 /\ UNCHANGED <<est, lastConnect>>
    /\ UNCHANGED <<ctxDone, active, hc, lastRecorded, run, iterSeen, acceptor,
                   closeVars, peerVars, mapVars, legVars, lep, tasks, nb, px, fdr>>

\* backend.createConn on a failed dial: setActive(false), the passive check
HncDialFail(p) ==
    /\ hnc[p].pc = "dialfail"
    /\ active' = [active EXCEPT ![hnc[p].bk] = setActive(@, FALSE)]
    /\ lastConnect' = [lastConnect EXCEPT ![hnc[p].bk] = "fail"]
    /\ lastRecorded' = [lastRecorded EXCEPT ![hnc[p].bk] = "fail"]
    /\ hnc' = [hnc EXCEPT ![p].pc = "closeCli"]
    /\ UNCHANGED <<ctxDone, hc, run, iterSeen, acceptor, est, closeVars,
                   peerVars, mapVars, legVars, lep, tasks, nb, px, fdr>>

\* handleNewConnection without a remote connection: netConn.Close()
HncLeaveClient(p) ==
    /\ hnc[p].pc = "closeCli"
    /\ hnc' = [hnc EXCEPT ![p].pc = "failed"]
    /\ UNCHANGED <<ctxDone, healthVars, run, iterSeen, acceptor, est,
                   closeVars, peerVars, mapVars, legVars, lep, tasks, nb, px, fdr>>

HncCloseClient(p) ==
    /\ hnc[p].pc = "closeCli"
    /\ osCloses' = [osCloses EXCEPT ![<<p, "c">>] = @ + 1]
    /\ hnc' = [hnc EXCEPT ![p].pc = "failed"]
    /\ UNCHANGED <<ctxDone, healthVars, run, iterSeen, acceptor, est,
                   closeCalls, closed, registered, peerVars, mapVars,
                   legVars, lep, tasks, nb, px, fdr>>

\* the leg handleNewConnection is adding
hncLeg(p) == <<p, IF hnc[p].pc \in {"addF", "insF"} THEN "c" ELSE "b">>

\* addConn, the select: conn.Close() when the context is done; the call
\* goes on to the insertion in both cases
addConnSelect(p) ==
    /\ hnc[p].pc \in {"addF", "addB"}
    /\ IF ctxDone
       THEN CloseConn(hncLeg(p))
       ELSE UNCHANGED closeVars
    /\ hnc' = [hnc EXCEPT ![p].pc = IF hnc[p].pc = "addF" THEN "insF" ELSE "insB",
                          ![p].saw = ctxDone]
    /\ UNCHANGED <<ctxDone, healthVars, run, iterSeen, acceptor, est,
                   peerVars, mapVars, legVars, lep, tasks, nb, px, fdr>>

\* epoll.Add: EpollCtl fails on a closed epoll and on a closed socket
epollAdd(m, s) ==
    IF ~epollClosed[m] /\ osOpen(s)
    THEN [registered EXCEPT ![m] = @ \cup {s}]
    ELSE registered

\* epoll.Del
epollDel(m, s) == [registered EXCEPT ![m] = @ \ {s}]

\* connections[conn.fd] = conn
mapInsertElsewhere(m, s) == connections

mapInsert(m, s) == [connections EXCEPT ![m] = @ \cup {s}]

\* addConn under rmu.Lock(): connections[conn.fd] = conn; epoller.Add(conn.fd)
addConnInsert(p) ==
    /\ hnc[p].pc \in {"insF", "insB"}
    /\ ~rlocked(manager(hncLeg(p)))
    /\ connections' = mapInsert(manager(hncLeg(p)), hncLeg(p))
    /\ registered' = epollAdd(manager(hncLeg(p)), hncLeg(p))
    /\ hnc' = [hnc EXCEPT ![p].pc = IF hnc[p].pc = "insF" THEN "addB" ELSE "done",
                          ![p].saw = FALSE]
    /\ UNCHANGED <<ctxDone, healthVars, run, iterSeen, acceptor, est,
                   closeCalls, closed, osCloses, peerVars, epollClosed,
                   legVars, lep, tasks, nb, px, fdr>>

\* ------------------------------------------------ listenEpoll, serveEvent

\* listenEpoll in epoller.Wait(), or at its first select: return when the
\* context is done (at the select, or after Wait has failed on the closed
\* epoll: logged, continue, select), else the events of the ready sockets,
\* each with the mask it has now; the context may have been cancelled
\* while Wait was blocked
LepWait(m) ==
    /\ lep[m].pc = "wait"
    /\ \/ /\ ctxDone
          /\ lep' = [lep EXCEPT ![m].pc = "exit"]
       \/ /\ ~epollClosed[m] /\ Ready(m) # {}
          /\ \E q \in Orderings(Ready(m)) :
               lep' = [lep EXCEPT ![m].pc = "lookup",
                                  ![m].batch = [i \in 1..Len(q) |->
                                                [s |-> q[i], mask |-> Mask(q[i])]]]
    /\ UNCHANGED <<ctxDone, healthVars, run, iterSeen, acceptor, hnc, est,
                   closeVars, peerVars, mapVars, legVars, tasks, nb, px, fdr>>

\* listenEpoll after serveEvent has returned: the next event of the batch;
\* after the last one the select at the top of the loop, which returns when
\* the context is done, and else epoller.Wait()
lepNext(m) ==
    [lep EXCEPT ![m].batch = Tail(@),
                ![m].pc = IF Len(lep[m].batch) > 1 THEN "lookup"
                          ELSE IF ctxDone THEN "exit" ELSE "wait"]

\* serveEvent: getConnByFD; the event is dropped when the map has no such fd
serveEventLookup(m) ==
    /\ lep[m].pc = "lookup"
    /\ lep' = IF Head(lep[m].batch).s \in connections[m]
              THEN [lep EXCEPT ![m].pc = "cas"]
              ELSE lepNext(m)
    /\ UNCHANGED <<ctxDone, healthVars, run, iterSeen, acceptor, hnc, est,
                   closeVars, peerVars, mapVars, legVars, tasks, nb, px, fdr>>

\* the goroutine serveEvent starts for an event
newTask(kind, s) ==
    [k |-> kind, s |-> s, pc |-> IF kind = "copy" THEN "read" ELSE "do",
     buf |-> <<>>, n |-> 0, err |-> FALSE]

\* the goroutines serveEvent starts for an event with this mask
spawnedOnReadable(s, mask) ==
    IF mask = {"IN"} THEN SetToBag({newTask("copy", s)}) ELSE EmptyBag

spawnedReadableFirst(s, mask) ==
    IF "IN" \in mask THEN SetToBag({newTask("copy", s)})
    ELSE IF mask \cap {"HUP", "RDHUP"} # {} THEN SetToBag({newTask("hup", s)})
    ELSE EmptyBag

spawned(s, mask) ==
    IF mask \cap {"HUP", "RDHUP"} # {} THEN SetToBag({newTask("hup", s)})
    ELSE IF "IN" \in mask THEN SetToBag({newTask("copy", s)})
    ELSE EmptyBag

\* PipedConn.setUnderIO: underIO.CompareAndSwap(!t, t) on the flag's value u;
\* whether the swap was made
setUnderIOAlways(u, t) == TRUE

setUnderIO(u, t) == u = ~t

\* serveEvent from conn.setUnderIO(true) on: the event is dropped when the
\* flag was set already; else a goroutine runs finalizeOnce.Do (a hangup)
\* or serveConn (readable)
serveEventCas(m) ==
    /\ lep[m].pc = "cas"
    /\ LET ev == Head(lep[m].batch)
       IN IF ~setUnderIO(underIO[ev.s], TRUE)
          THEN UNCHANGED <<underIO, tasks>>
          ELSE /\ BagCardinality(tasks) < MaxTasks
               /\ underIO' = [underIO EXCEPT ![ev.s] = TRUE]
               /\ tasks' = tasks (+) spawned(ev.s, ev.mask)
    /\ lep' = lepNext(m)
    /\ UNCHANGED <<ctxDone, healthVars, run, iterSeen, acceptor, hnc, est,
                   closeVars, peerVars, mapVars, once, finalizeRuns, nb, px, fdr>>

\* ------------------------------------------------------------ serveConn

\* task t of the bag goes on as u
Becomes(t, u) == tasks' = (tasks (-) SetToBag({t})) (+) SetToBag({u})
\* task t of the bag ends
Ends1(t) == tasks' = tasks (-) SetToBag({t})

\* io.CopyBuffer, src.Read(buf): an error on a socket closed here or reset
\* by the peer, else up to len(buf) of the bytes received, else the end of
\* the stream; the call blocks while there is none of these
copyRead(t) ==
    /\ t.k = "copy" /\ t.pc = "read"
    /\ IF ~osOpen(t.s) \/ peerRst[t.s]
       THEN /\ Becomes(t, [t EXCEPT !.pc = "clear", !.err = TRUE])
            /\ UNCHANGED rx
       ELSE IF rx[t.s] # <<>>
       THEN /\ Becomes(t, [t EXCEPT !.pc = "write", !.buf = Take(rx[t.s], BufLen)])
            /\ rx' = [rx EXCEPT ![t.s] = Drop(@, BufLen)]
       ELSE /\ peerFin[t.s]
            /\ Becomes(t, [t EXCEPT !.pc = "clear"])
            /\ UNCHANGED rx
    /\ UNCHANGED <<ctxDone, healthVars, run, iterSeen, acceptor, hnc, est,
                   closeVars, sentN, peerFin, peerRst, out, mapVars, legVars,
                   lep, nb, px, fdr>>

\* the bytes written to a socket after dst.Write(buf)
writtenFirst(o, buf) == buf \o o

written(o, buf) == o \o buf

\* io.CopyBuffer, dst.Write(buf[0:nr]): an error on a socket closed here or
\* reset by the peer, else the bytes are written in full
copyWrite(t) ==
    /\ t.k = "copy" /\ t.pc = "write"
    /\ IF ~osOpen(pipeTo(t.s)) \/ peerRst[pipeTo(t.s)]
       THEN /\ Becomes(t, [t EXCEPT !.pc = "clear", !.err = TRUE, !.buf = <<>>])
            /\ UNCHANGED out
       ELSE /\ Becomes(t, [t EXCEPT !.pc = "read", !.buf = <<>>,
                                    !.n = Min(t.n + Len(t.buf), MaxData)])
            /\ out' = [out EXCEPT ![pipeTo(t.s)] = written(@, t.buf)]
    /\ UNCHANGED <<ctxDone, healthVars, run, iterSeen, acceptor, hnc, est,
                   closeVars, rx, sentN, peerFin, peerRst, mapVars, legVars,
                   lep, nb, px, fdr>>

\* serveConn after the copy: conn.setUnderIO(false); then finalizeOnce.Do
\* when err != nil || n == 0, else the goroutine ends
wantsFinalizeOnZero(t) == t.n = 0

wantsFinalize(t) == t.err \/ t.n = 0

serveConnClear(t) ==
    /\ t.k = "copy" /\ t.pc = "clear"
    /\ underIO' = [underIO EXCEPT ![t.s] = FALSE]
    /\ IF wantsFinalize(t)
       THEN Becomes(t, [t EXCEPT !.pc = "do"])
       ELSE Ends1(t)
    /\ UNCHANGED <<ctxDone, healthVars, run, iterSeen, acceptor, hnc, est,
                   closeVars, peerVars, mapVars, once, finalizeRuns, lep, nb, px, fdr>>

\* ------------------------------------------- finalizeOnce.Do, finalize

\* sync.Once.Do enters its function when the Once is new
onceEntersAlways(o) == o # "running"

onceEnters(o) == o = "new"

\* finalizeOnce.Do(func() { ...; conn.finalize() }), by a goroutine started
\* for a hangup or by serveConn: the first caller enters finalize, a caller
\* that finds the Once done returns, and a caller that finds it running
\* waits for it
onceDo(t) ==
    /\ t.pc = "do"
    /\ once[t.s[1]] # "running" \/ onceEnters(once[t.s[1]])
    /\ IF onceEnters(once[t.s[1]])
       THEN /\ once' = [once EXCEPT ![t.s[1]] = "running"]
            /\ finalizeRuns' = [finalizeRuns EXCEPT ![t.s[1]] = @ + 1]
            /\ Becomes(t, [t EXCEPT !.pc = "f_clear"])
       ELSE /\ Ends1(t)
            /\ UNCHANGED <<once, finalizeRuns>>
    /\ UNCHANGED <<ctxDone, healthVars, run, iterSeen, acceptor, hnc, est,
                   closeVars, peerVars, mapVars, underIO, lep, nb, px, fdr>>

\* finalize: c.setUnderIO(false)
finalizeClear(t) ==
    /\ t.pc = "f_clear"
    /\ underIO' = [underIO EXCEPT ![t.s] = FALSE]
    /\ Becomes(t, [t EXCEPT !.pc = "f_close"])
    /\ UNCHANGED <<ctxDone, healthVars, run, iterSeen, acceptor, hnc, est,
                   closeVars, peerVars, mapVars, once, finalizeRuns, lep, nb, px, fdr>>

\* finalize: c.Close(), then c.pipeTo.Close()
finalizeClose(t) ==
    /\ t.pc \in {"f_close", "f_closeTo"}
    /\ CloseConn(IF t.pc = "f_close" THEN t.s ELSE pipeTo(t.s))
    /\ Becomes(t, [t EXCEPT !.pc = IF t.pc = "f_close" THEN "f_closeTo" ELSE "f_delToSel"])
    /\ UNCHANGED <<ctxDone, healthVars, run, iterSeen, acceptor, hnc, est,
                   peerVars, mapVars, legVars, lep, nb, px, fdr>>

\* the socket whose delConn finalize is in: pipeTo's first, then c's
delTarget(t) == IF t.pc \in {"f_delToSel", "f_delTo"} THEN pipeTo(t.s) ELSE t.s

\* finalize is over: the Once is done and the goroutine ends
finalizeReturns(t) ==
    /\ once' = [once EXCEPT ![t.s[1]] = "done"]
    /\ Ends1(t)

\* delConn, the select: return when the context is done
delConnSelect(t) ==
    /\ t.pc \in {"f_delToSel", "f_delSel"}
    /\ IF ctxDone
       THEN IF t.pc = "f_delToSel"
            THEN Becomes(t, [t EXCEPT !.pc = "f_delSel"]) /\ UNCHANGED once
            ELSE finalizeReturns(t)
       ELSE /\ Becomes(t, [t EXCEPT !.pc = IF t.pc = "f_delToSel" THEN "f_delTo" ELSE "f_del"])
            /\ UNCHANGED once
    /\ UNCHANGED <<ctxDone, healthVars, run, iterSeen, acceptor, hnc, est,
                   closeVars, peerVars, mapVars, underIO, finalizeRuns, lep, nb, px, fdr>>

\* delConn under rmu.Lock(): epoller.Del(fd); delete(connections, fd)
delConnDelete(t) ==
    /\ t.pc \in {"f_delTo", "f_del"}
    /\ ~rlocked(manager(delTarget(t)))
    /\ registered' = epollDel(manager(delTarget(t)), delTarget(t))
    /\ connections' = [connections EXCEPT ![manager(delTarget(t))] = @ \ {delTarget(t)}]
    /\ IF t.pc = "f_delTo"
       THEN Becomes(t, [t EXCEPT !.pc = "f_delSel"]) /\ UNCHANGED once
       ELSE finalizeReturns(t)
    /\ UNCHANGED <<ctxDone, healthVars, run, iterSeen, acceptor, hnc, est,
                   closeCalls, closed, osCloses, peerVars, epollClosed,
                   underIO, finalizeRuns, lep, nb, px, fdr>>

\* ---------------------------------------------------- the specification

TaskStep(t) ==
    \/ copyRead(t)
    \/ copyWrite(t)
    \/ serveConnClear(t)
    \/ onceDo(t)
    \/ finalizeClear(t)
    \/ finalizeClose(t)
    \/ delConnSelect(t)
    \/ delConnDelete(t)

Env ==
    \/ Cancel
    \/ \E s \in Socks : PeerSend(s) \/ PeerFin(s) \/ PeerRst(s)

Proxy ==
    \/ RunBind
    \/ RunCloseListener
    \/ \E b \in Backends : RunStart(b) \/ HcDial(b) \/ HcSetActive(b) \/ HcTick(b)
    \/ \E m \in Mgrs : RunWait(m) \/ RunCloseEpoll(m) \/ RunRLock(m) \/ RunIter(m)
    \/ AcceptorExit
    \/ \E p \in Pairs : \/ Accept(p)
                        \/ HncNextBackend(p)
                        \/ HncDial(p)
                        \/ HncDialFail(p)
                        \/ HncCloseClient(p)
                        \/ addConnSelect(p)
                        \/ addConnInsert(p)
    \/ \E m \in Mgrs : LepWait(m) \/ serveEventLookup(m) \/ serveEventCas(m)
    \/ \E t \in BagToSet(tasks) : TaskStep(t)

Next == Env \/ Proxy

Spec == Init /\ [][Next]_vars

\* The proxy once it serves: frontend.run has bound its port and started
\* listenEpoll and listenForNewConn, backend.run has started its goroutines
\* and the first health check has found the target.
InitServing ==
    /\ ctxDone = FALSE
    /\ active = [b \in Backends |-> TRUE]
    /\ hc = [b \in Backends |-> "tick"]
    /\ lastConnect = [b \in Backends |-> "ok"]
    /\ lastRecorded = [b \in Backends |-> "ok"]
    /\ run = [m \in Mgrs |-> "serve"]
    /\ iterSeen = [m \in Mgrs |-> {}]
    /\ acceptor = "accept"
    /\ hnc = [p \in Pairs |-> [pc |-> "none", bk |-> Bnds[1], saw |-> FALSE]]
    /\ est = [s \in Socks |-> FALSE]
    /\ closed = [s \in Socks |-> FALSE]
    /\ osCloses = [s \in Socks |-> 0]
    /\ closeCalls = [s \in Socks |-> 0]
    /\ rx = [s \in Socks |-> <<>>]
    /\ sentN = [s \in Socks |-> 0]
    /\ peerFin = [s \in Socks |-> FALSE]
    /\ peerRst = [s \in Socks |-> FALSE]
    /\ out = [s \in Socks |-> <<>>]
    /\ connections = [m \in Mgrs |-> {}]
    /\ registered = [m \in Mgrs |-> {}]
    /\ epollClosed = [m \in Mgrs |-> FALSE]
    /\ underIO = [s \in Socks |-> FALSE]
    /\ once = [p \in Pairs |-> "new"]
    /\ finalizeRuns = [p \in Pairs |-> 0]
    /\ lep = [m \in Mgrs |-> [pc |-> "wait", batch |-> <<>>]]
    /\ tasks = EmptyBag
    /\ nb = NoNb /\ px = NoPx /\ fdr = NoFdr

Tunnel ==
    \/ \E p \in Pairs : \/ Accept(p)
                        \/ HncNextBackend(p)
                        \/ HncDial(p)
                        \/ HncDialFail(p)
                        \/ HncCloseClient(p)
                        \/ addConnSelect(p)
                        \/ addConnInsert(p)
    \/ \E m \in Mgrs : LepWait(m) \/ serveEventLookup(m) \/ serveEventCas(m)
    \/ \E t \in BagToSet(tasks) : TaskStep(t)

NextTunnel == Tunnel \/ \E s \in Socks : PeerSend(s) \/ PeerFin(s) \/ PeerRst(s)

SpecTunnel == InitServing /\ [][NextTunnel]_vars

\* A tunnel that handleNewConnection has set up in the serving proxy: both
\* legs are in their maps and registered, and nothing has been sent yet.
InitEstablished ==
    /\ ctxDone = FALSE
    /\ active = [b \in Backends |-> TRUE]
    /\ hc = [b \in Backends |-> "tick"]
    /\ lastConnect = [b \in Backends |-> "ok"]
    /\ lastRecorded = [b \in Backends |-> "ok"]
    /\ run = [m \in Mgrs |-> "serve"]
    /\ iterSeen = [m \in Mgrs |-> {}]
    /\ acceptor = "accept"
    /\ hnc = [p \in Pairs |-> [pc |-> "done", bk |-> Bnds[1], saw |-> FALSE]]
    /\ est = [s \in Socks |-> TRUE]
    /\ closed = [s \in Socks |-> FALSE]
    /\ osCloses = [s \in Socks |-> 0]
    /\ closeCalls = [s \in Socks |-> 0]
    /\ rx = [s \in Socks |-> <<>>]
    /\ sentN = [s \in Socks |-> 0]
    /\ peerFin = [s \in Socks |-> FALSE]
    /\ peerRst = [s \in Socks |-> FALSE]
    /\ out = [s \in Socks |-> <<>>]
    /\ connections = [m \in Mgrs |-> {s \in Socks : manager(s) = m}]
    /\ registered = [m \in Mgrs |-> {s \in Socks : manager(s) = m}]
    /\ epollClosed = [m \in Mgrs |-> FALSE]
    /\ underIO = [s \in Socks |-> FALSE]
    /\ once = [p \in Pairs |-> "new"]
    /\ finalizeRuns = [p \in Pairs |-> 0]
    /\ lep = [m \in Mgrs |-> [pc |-> "wait", batch |-> <<>>]]
    /\ tasks = EmptyBag
    /\ nb = NoNb /\ px = NoPx /\ fdr = NoFdr

NextEstablished ==
    \/ \E m \in Mgrs : LepWait(m) \/ serveEventLookup(m) \/ serveEventCas(m)
    \/ \E t \in BagToSet(tasks) : TaskStep(t)
    \/ \E s \in Socks : PeerSendUpTo(s, LiveData) \/ PeerFin(s) \/ PeerRst(s)

TaskPcs == {"read", "write", "clear", "do", "f_clear", "f_close", "f_closeTo",
            "f_delToSel", "f_delTo", "f_delSel", "f_del"}

\* Every goroutine of the proxy that can take a step eventually takes it,
\* and epoll_wait returns while a registered socket is ready (the events
\* are level-triggered).  Nothing is assumed of the peers.
Fairness ==
    /\ \A m \in Mgrs : /\ WF_vars(LepWait(m))
                       /\ WF_vars(serveEventLookup(m))
                       /\ WF_vars(serveEventCas(m))
    /\ \A s \in Socks : \A pc \in TaskPcs :
         WF_vars(\E t \in BagToSet(tasks) : t.s = s /\ t.pc = pc /\ TaskStep(t))

SpecEstablished == InitEstablished /\ [][NextEstablished]_vars /\ Fairness

\* the steps of a goroutine that runs finalizeOnce.Do
FinalizeStep(t) ==
    \/ onceDo(t)
    \/ finalizeClear(t)
    \/ finalizeClose(t)
    \/ delConnSelect(t)
    \/ delConnDelete(t)

\* Shutdown of a proxy that serves, with peers that send nothing and close:
\* every event is a hangup.
NextShutdown ==
    \/ Cancel
    \/ RunCloseListener
    \/ AcceptorExit
    \/ \E m \in Mgrs : RunWait(m) \/ RunCloseEpoll(m) \/ RunRLock(m) \/ RunIter(m)
    \/ \E p \in Pairs : \/ Accept(p)
                        \/ HncNextBackend(p)
                        \/ HncDial(p)
                        \/ HncDialFail(p)
                        \/ HncCloseClient(p)
                        \/ addConnSelect(p)
                        \/ addConnInsert(p)
    \/ \E m \in Mgrs : LepWait(m) \/ serveEventLookup(m) \/ serveEventCas(m)
    \/ \E t \in BagToSet(tasks) : FinalizeStep(t)
    \/ \E s \in Socks : PeerFin(s)

SpecShutdown == InitServing /\ [][NextShutdown]_vars

\* Startup, health checks and the dial of handleNewConnection, from the
\* state after construction.
NextHealth ==
    \/ Cancel
    \/ RunBind
    \/ AcceptorExit
    \/ \E b \in Backends : RunStart(b) \/ HcDial(b) \/ HcSetActive(b) \/ HcTick(b)
    \/ \E p \in Pairs : \/ Accept(p)
                        \/ HncNextBackend(p)
                        \/ HncDial(p)
                        \/ HncDialFail(p)
                        \/ HncCloseClient(p)

SpecHealth == Init /\ [][NextHealth]_vars

\* nextBackend on its own, on every input within the bounds
InitNextBackend ==
    /\ InitProxy
    /\ nb \in [act : [1..NumBnds -> BOOLEAN], cnt : [1..NumBnds -> 0..MaxCount],
               res : {0}, called : {FALSE}]
    /\ px = NoPx /\ fdr = NoFdr

CallNextBackend ==
    /\ ~nb.called
    /\ nb' = [nb EXCEPT !.res = nextBackend(nb.act, nb.cnt), !.called = TRUE]
    /\ UNCHANGED <<ctxDone, healthVars, run, iterSeen, acceptor, hnc, est,
                   closeVars, peerVars, mapVars, legVars, lep, tasks,
                   px, fdr>>

SpecNextBackend == InitNextBackend /\ [][CallNextBackend]_vars

\* The proxy from its construction to the return of Proxy.Run: start-up,
\* health checks, the set-up of a tunnel, cancellation and shutdown.
NextLifecycle ==
    \/ NextHealth
    \/ RunCloseListener
    \/ \E m \in Mgrs : RunWait(m) \/ RunCloseEpoll(m) \/ RunRLock(m) \/ RunIter(m)
    \/ \E p \in Pairs : addConnSelect(p) \/ addConnInsert(p)

\* Every goroutine running frontend.run or backend.run eventually takes the
\* step it can take (the scheduler is fair to it); nothing is assumed of
\* the other goroutines, of the peers or of the moment of cancellation.
FairRun ==
    /\ WF_vars(ctxDone /\ RunBind)
    /\ WF_vars(RunCloseListener)
    /\ \A m \in Mgrs : /\ WF_vars(RunWait(m))
                       /\ WF_vars(RunCloseEpoll(m))
                       /\ WF_vars(RunRLock(m))
                       /\ WF_vars(RunIter(m))
    /\ \A b \in Backends : WF_vars(RunStart(b))

SpecLifecycle == Init /\ [][NextLifecycle]_vars /\ FairRun

\* An established tunnel in mid-copy: a goroutine of serveConn has copied
\* the byte the peer of one leg wrote and is blocked in its next read.
InitMidCopy ==
    \E s0 \in Socks :
      /\ ctxDone = FALSE
      /\ active = [b \in Backends |-> TRUE]
      /\ hc = [b \in Backends |-> "tick"]
      /\ lastConnect = [b \in Backends |-> "ok"]
      /\ lastRecorded = [b \in Backends |-> "ok"]
      /\ run = [m \in Mgrs |-> "serve"]
      /\ iterSeen = [m \in Mgrs |-> {}]
      /\ acceptor = "accept"
      /\ hnc = [p \in Pairs |-> [pc |-> "done", bk |-> Bnds[1], saw |-> FALSE]]
      /\ est = [s \in Socks |-> TRUE]
      /\ closed = [s \in Socks |-> FALSE]
      /\ osCloses = [s \in Socks |-> 0]
      /\ closeCalls = [s \in Socks |-> 0]
      /\ rx = [s \in Socks |-> <<>>]
      /\ sentN = [s \in Socks |-> IF s = s0 THEN 1 ELSE 0]
      /\ peerFin = [s \in Socks |-> FALSE]
      /\ peerRst = [s \in Socks |-> FALSE]
      /\ out = [s \in Socks |-> IF s = pipeTo(s0) THEN <<1>> ELSE <<>>]
      /\ connections = [m \in Mgrs |-> {s \in Socks : manager(s) = m}]
      /\ registered = [m \in Mgrs |-> {s \in Socks : manager(s) = m}]
      /\ epollClosed = [m \in Mgrs |-> FALSE]
      /\ underIO = [s \in Socks |-> s = s0]
      /\ once = [p \in Pairs |-> "new"]
      /\ finalizeRuns = [p \in Pairs |-> 0]
      /\ lep = [m \in Mgrs |-> [pc |-> "wait", batch |-> <<>>]]
      /\ tasks = SetToBag({[newTask("copy", s0) EXCEPT !.n = 1]})
      /\ nb = NoNb /\ px = NoPx /\ fdr = NoFdr

\* The tunnel in mid-copy is shut down.  The peer whose bytes are copied
\* stays silent, so that the copy stays blocked until the proxy unblocks
\* it; the other peer may close or reset at any time.
NextMidCopy ==
    \/ Cancel
    \/ RunCloseListener
    \/ \E m \in Mgrs : RunWait(m) \/ RunCloseEpoll(m) \/ RunRLock(m) \/ RunIter(m)
    \/ \E m \in Mgrs : LepWait(m) \/ serveEventLookup(m) \/ serveEventCas(m)
    \/ \E t \in BagToSet(tasks) : TaskStep(t)
    \/ \E s \in Socks : sentN[s] = 0 /\ (PeerFin(s) \/ PeerRst(s))

\* the goroutines of serveConn and finalize and those of run are scheduled
FairMidCopy ==
    /\ WF_vars(RunCloseListener)
    /\ \A m \in Mgrs : /\ WF_vars(RunWait(m))
                       /\ WF_vars(RunCloseEpoll(m))
                       /\ WF_vars(RunRLock(m))
                       /\ WF_vars(RunIter(m))
    /\ \A s \in Socks : \A pc \in TaskPcs :
         WF_vars(\E t \in BagToSet(tasks) : t.s = s /\ t.pc = pc /\ TaskStep(t))

SpecMidCopy == InitMidCopy /\ [][NextMidCopy]_vars /\ FairMidCopy

\* Client connections opened one after another to an application of two
\* backends that stay active, none of them closed: handleNewConnection
\* returns before the next connection is accepted.  nb.cnt[i] is
\* len(connections) of backend i, nb.res the backend chosen for the
\* connection being set up.
InitSequential ==
    /\ InitProxy
    /\ nb = [act |-> <<TRUE, TRUE>>, cnt |-> <<0, 0>>, res |-> 0, called |-> FALSE]
    /\ px = NoPx /\ fdr = NoFdr

\* handleNewConnection: createRemoteConnection picks the backend and dials it
SeqCreateRemote ==
    /\ ~nb.called
    /\ nb.cnt[1] + nb.cnt[2] < MaxConns
    /\ nb' = [nb EXCEPT !.res = nextBackend(nb.act, nb.cnt), !.called = TRUE]
    /\ UNCHANGED <<ctxDone, healthVars, run, iterSeen, acceptor, hnc, est,
                   closeVars, peerVars, mapVars, legVars, lep, tasks,
                   px, fdr>>

\* handleNewConnection: the backend leg is added to the map of its backend
SeqAddConn ==
    /\ nb.called
    /\ nb' = [nb EXCEPT !.cnt[nb.res] = @ + 1, !.called = FALSE]
    /\ UNCHANGED <<ctxDone, healthVars, run, iterSeen, acceptor, hnc, est,
                   closeVars, peerVars, mapVars, legVars, lep, tasks,
                   px, fdr>>

SpecSequential == InitSequential /\ [][SeqCreateRemote \/ SeqAddConn]_vars

\* Start-up, health checks and the set-up of a tunnel without cancellation.
NextRecovery ==
    \/ RunBind
    \/ \E b \in Backends : RunStart(b) \/ HcDial(b) \/ HcSetActive(b) \/ HcTick(b)
    \/ \E p \in Pairs : \/ Accept(p)
                        \/ HncNextBackend(p)
                        \/ HncDial(p)
                        \/ HncDialFail(p)
                        \/ HncCloseClient(p)
                        \/ addConnSelect(p)
                        \/ addConnInsert(p)

\* backend.run and runHealthcheck are scheduled and the ticker fires; a
\* handleNewConnection that was started is scheduled.  Whether a dial
\* succeeds, whether the port can be bound and whether a client connects is
\* left to the environment.
FairRecovery ==
    /\ \A b \in Backends : /\ WF_vars(RunStart(b))
                           /\ WF_vars(HcDial(b))
                           /\ WF_vars(HcSetActive(b))
                           /\ WF_vars(HcTick(b))
    /\ \A p \in Pairs : /\ WF_vars(HncNextBackend(p))
                        /\ WF_vars(HncDial(p))
                        /\ WF_vars(HncDialFail(p))
                        /\ WF_vars(HncCloseClient(p))
                        /\ WF_vars(addConnSelect(p))
                        /\ WF_vars(addConnInsert(p))

SpecRecovery == Init /\ [][NextRecovery]_vars /\ FairRecovery

\* ------------------------------------------------------------- start-up

MaxApps == 2
MaxPorts == 2
MaxTargets == 1

\* Config.Apps[i].Ports holds ints: two ports that resolve and one that
\* does not
PortValues == {8080, 8081, 65536}

\* Config.Apps[i].Targets holds strings: one host:port and one that is not
TargetValues == {"h:1", "h"}

SeqsUpTo(S, n) == UNION {[1..k -> S] : k \in 0..n}

\* the configurations json.Unmarshal can produce: toProxyConfig copies
\* Ports and Targets as they are
Configs ==
    SeqsUpTo([Ports : SeqsUpTo(PortValues, MaxPorts),
              Targets : SeqsUpTo(TargetValues, MaxTargets)], MaxApps)

\* net.ResolveTCPAddr("tcp", ":port") in newFrontend
resolves(port) == port \in 0..65535

\* net.SplitHostPort(address) in newBackend
splitsHostPort(address) == address = "h:1"

\* boot.InitAndStart: the configuration is read and handed to NewProxy
InitStartup ==
    /\ InitProxy
    /\ nb = NoNb
    /\ \E cfg \in Configs : px = [NoPx EXCEPT !.cfg = cfg]
    /\ fdr = NoFdr

\* NewProxy: newBackend for the next target of the app; an error cancels
\* and returns
NpNewBackend ==
    /\ px.pc = "new"
    /\ px.i <= Len(px.cfg)
    /\ px.t <= Len(px.cfg[px.i].Targets)
    /\ LET target == px.cfg[px.i].Targets[px.t] IN
       \E epollOk \in BOOLEAN :
         IF splitsHostPort(target) /\ epollOk
         THEN px' = [px EXCEPT !.bnds = Append(@, target), !.t = @ + 1]
         ELSE px' = [px EXCEPT !.pc = "failed"]
    /\ UNCHANGED <<ctxDone, healthVars, run, iterSeen, acceptor, hnc, est,
                   closeVars, peerVars, mapVars, legVars, lep, tasks, nb,
                   fdr>>

\* NewProxy: newFrontend for the next port of the app; an error cancels
\* and returns.  The ports of the frontends made so far are not looked at.
NpNewFrontend ==
    /\ px.pc = "new"
    /\ px.i <= Len(px.cfg)
    /\ px.t > Len(px.cfg[px.i].Targets)
    /\ px.j <= Len(px.cfg[px.i].Ports)
    /\ LET port == px.cfg[px.i].Ports[px.j] IN
       \E epollOk \in BOOLEAN :
         IF resolves(port) /\ epollOk
         THEN px' = [px EXCEPT !.fnds = Append(@, port),
                               !.fpc = Append(@, "idle"), !.j = @ + 1]
         ELSE px' = [px EXCEPT !.pc = "failed"]
    /\ UNCHANGED <<ctxDone, healthVars, run, iterSeen, acceptor, hnc, est,
                   closeVars, peerVars, mapVars, legVars, lep, tasks, nb,
                   fdr>>

\* NewProxy: the next app of config.Apps
NpNextApp ==
    /\ px.pc = "new"
    /\ px.i <= Len(px.cfg)
    /\ px.t > Len(px.cfg[px.i].Targets)
    /\ px.j > Len(px.cfg[px.i].Ports)
    /\ px' = [px EXCEPT !.i = @ + 1, !.t = 1, !.j = 1]
    /\ UNCHANGED <<ctxDone, healthVars, run, iterSeen, acceptor, hnc, est,
                   closeVars, peerVars, mapVars, legVars, lep, tasks, nb,
                   fdr>>

\* NewProxy: every app is done, the Proxy is returned with a nil error
NpReturn ==
    /\ px.pc = "new"
    /\ px.i > Len(px.cfg)
    /\ px' = [px EXCEPT !.pc = "built"]
    /\ UNCHANGED <<ctxDone, healthVars, run, iterSeen, acceptor, hnc, est,
                   closeVars, peerVars, mapVars, legVars, lep, tasks, nb,
                   fdr>>

\* Proxy.Run, called by InitAndStart when NewProxy returned no error: go
\* fnd.run for every frontend
ProxyRun ==
    /\ px.pc = "built"
    /\ px' = [px EXCEPT !.pc = "run",
                        !.fpc = [k \in 1..Len(px.fnds) |-> "bind"]]
    /\ UNCHANGED <<ctxDone, healthVars, run, iterSeen, acceptor, hnc, est,
                   closeVars, peerVars, mapVars, legVars, lep, tasks, nb,
                   fdr>>

\* the kernel refuses to bind a port that has a listener
portFree(k) ==
    \A h \in 1..Len(px.fnds) :
      (h # k /\ px.fpc[h] = "serve") => px.fnds[h] # px.fnds[k]

\* frontend.run of the k-th frontend: return when cancelled, else
\* net.ListenTCP; on an error sleep 5 seconds and try again
FndBind(k) ==
    /\ px.pc = "run"
    /\ k <= Len(px.fnds)
    /\ px.fpc[k] = "bind"
    /\ IF ctxDone
       THEN px' = [px EXCEPT !.fpc[k] = "done"]
       ELSE \E ok \in BOOLEAN :
              IF ok /\ portFree(k)
              THEN px' = [px EXCEPT !.fpc[k] = "serve"]
              ELSE px' = px
    /\ UNCHANGED <<ctxDone, healthVars, run, iterSeen, acceptor, hnc, est,
                   closeVars, peerVars, mapVars, legVars, lep, tasks, nb,
                   fdr>>

\* frontend.run of the k-th frontend: the context is done, the listener is
\* closed and run returns
FndStop(k) ==
    /\ px.pc = "run"
    /\ k <= Len(px.fnds)
    /\ px.fpc[k] = "serve"
    /\ ctxDone
    /\ px' = [px EXCEPT !.fpc[k] = "done"]
    /\ UNCHANGED <<ctxDone, healthVars, run, iterSeen, acceptor, hnc, est,
                   closeVars, peerVars, mapVars, legVars, lep, tasks, nb,
                   fdr>>

NextStartup ==
    \/ NpNewBackend
    \/ NpNewFrontend
    \/ NpNextApp
    \/ NpReturn
    \/ ProxyRun
    \/ Cancel
    \/ \E k \in 1..(MaxApps * MaxPorts) : FndBind(k) \/ FndStop(k)

SpecStartup == InitStartup /\ [][NextStartup]_vars


\* -------------------------------------- createRemoteConnection on its own

\* createRemoteConnection when createConn has returned an error: the error
\* is wrapped and returned
createConnFailedRetry(st) ==
    [st EXCEPT !.act[st.res] = setActive(@, FALSE), !.pc = "next"]

\* createConn on a failed dial sets the backend inactive;
\* createRemoteConnection returns the error
createConnFailed(st) ==
    [st EXCEPT !.act[st.res] = setActive(@, FALSE), !.pc = "err"]

\* A call of createRemoteConnection on every input within the bounds:
\* nb.act and nb.cnt are the backends' active flags and connection counts,
\* nb.act0 the flags at the call, nb.pc the call's position and nb.dials the
\* backends createConn was called on.
InitCreateRemote ==
    /\ InitProxy
    /\ px = NoPx /\ fdr = NoFdr
    /\ \E act \in [1..NumBnds -> BOOLEAN], cnt \in [1..NumBnds -> 0..MaxCount] :
         nb = [act |-> act, cnt |-> cnt, res |-> 0, called |-> FALSE,
               pc |-> "next", dials |-> <<>>, act0 |-> act]

\* createRemoteConnection: a.nextBackend(); its error is returned
CrcNextBackend ==
    /\ nb.pc = "next"
    /\ LET r == nextBackend(nb.act, nb.cnt) IN
       nb' = [nb EXCEPT !.res = r, !.called = TRUE,
                        !.pc = IF r = 0 THEN "err" ELSE "dial"]
    /\ UNCHANGED <<ctxDone, healthVars, run, iterSeen, acceptor, hnc, est,
                   closeVars, peerVars, mapVars, legVars, lep, tasks, px, fdr>>

\* createRemoteConnection: nextBackend.createConn() dials the target
CrcCreateConn ==
    /\ nb.pc = "dial"
    /\ \E ok \in BOOLEAN :
         LET dialed == [nb EXCEPT !.dials = Append(@, nb.res)] IN
         nb' = IF ok THEN [dialed EXCEPT !.pc = "conn"]
                     ELSE createConnFailed(dialed)
    /\ UNCHANGED <<ctxDone, healthVars, run, iterSeen, acceptor, hnc, est,
                   closeVars, peerVars, mapVars, legVars, lep, tasks, px, fdr>>

SpecCreateRemote == InitCreateRemote /\ [][CrcNextBackend \/ CrcCreateConn]_vars

\* --------------------------------------------------- descriptor numbers

\* Two tunnels with the maps and the epoll interest lists keyed by fd, as
\* in the code: Conn.fd is the Sysfd of the socket, read by newConn, and
\* the kernel gives a new socket the lowest descriptor that is free.
\* fdr.pc[p] is the position of pair p (its handleNewConnection, then its
\* finalize), fdr.by[p] the leg whose goroutine runs finalize, fdr.fd[s]
\* the descriptor of socket s, fdr.open the sockets the process has open,
\* fdr.conns[m] the map of manager m as a set of <<fd, socket>> and
\* fdr.reg[m] its epoll interest list.  The context is not cancelled.
MaxFd == 4

FdPairs == {1, 2}
FdSocks == FdPairs \X Ends
FdMgrs == {"F", "B"}

fdManager(s) == IF s[2] = "c" THEN "F" ELSE "B"

allButFdr == <<ctxDone, healthVars, run, iterSeen, acceptor, hnc, est,
               closeVars, peerVars, mapVars, legVars, lep, tasks, nb, px>>

InitFd ==
    /\ InitProxy
    /\ nb = NoNb
    /\ px = NoPx
    /\ fdr = [pc |-> [p \in FdPairs |-> "none"],
              by |-> [p \in FdPairs |-> "c"],
              fd |-> [s \in FdSocks |-> 0],
              open |-> {},
              conns |-> [m \in FdMgrs |-> {}],
              reg |-> [m \in FdMgrs |-> {}]]

\* the descriptors no open socket of the process has
freeFds == {n \in 1..MaxFd : \A s \in fdr.open : fdr.fd[s] # n}

\* the descriptor the kernel gives to a new socket
lowestFree == CHOOSE n \in freeFds : \A k \in freeFds : n <= k

\* a new socket s: accept4 or socket
fdOpen(st, s) ==
    [st EXCEPT !.fd[s] = lowestFree, !.open = @ \cup {s}]

\* close(fd): the descriptor is free again and the kernel drops the socket
\* from every epoll interest list
fdClose(st, s) ==
    [st EXCEPT !.open = @ \ {s},
               !.reg = [m \in FdMgrs |-> {e \in st.reg[m] : e[2] # s}]]

\* addConn without cancellation: connections[conn.fd] = conn, then
\* epoller.Add(conn.fd), which fails on a closed socket
fdAddConn(st, s) ==
    LET m == fdManager(s)
        n == st.fd[s]
    IN [st EXCEPT !.conns[m] = {e \in @ : e[1] # n} \cup {<<n, s>>},
                  !.reg[m] = IF s \in st.open THEN @ \cup {<<n, s>>} ELSE @]

\* delConn(fd) of the Conn s without cancellation: epoller.Del(fd), then
\* delete(connections, fd); both go by the number
fdDelConn(st, m, n, s) ==
    [st EXCEPT !.reg[m] = {e \in @ : e[1] # n},
               !.conns[m] = {e \in @ : e[1] # n}]

\* listenForNewConn: AcceptTCP returns a client socket, go handleNewConnection
FdAccept(p) ==
    /\ fdr.pc[p] = "none"
    /\ freeFds # {}
    /\ fdr' = [fdOpen(fdr, <<p, "c">>) EXCEPT !.pc[p] = "accepted"]
    /\ UNCHANGED allButFdr

\* handleNewConnection: createRemoteConnection dials; on an error the
\* client socket is closed
FdDial(p) ==
    /\ fdr.pc[p] = "accepted"
    /\ freeFds # {}
    /\ \E ok \in BOOLEAN :
         fdr' = IF ok
                THEN [fdOpen(fdr, <<p, "b">>) EXCEPT !.pc[p] = "dialed"]
                ELSE [fdClose(fdr, <<p, "c">>) EXCEPT !.pc[p] = "done"]
    /\ UNCHANGED allButFdr

\* handleNewConnection: addConn of the client leg, then of the backend leg
FdAddConn(p) ==
    /\ fdr.pc[p] \in {"dialed", "addedC"}
    /\ fdr' = IF fdr.pc[p] = "dialed"
              THEN [fdAddConn(fdr, <<p, "c">>) EXCEPT !.pc[p] = "addedC"]
              ELSE [fdAddConn(fdr, <<p, "b">>) EXCEPT !.pc[p] = "serving"]
    /\ UNCHANGED allButFdr

\* finalizeOnce.Do entered by the goroutine of leg e of the tunnel
FdFinalize(p, e) ==
    /\ fdr.pc[p] = "serving"
    /\ fdr' = [fdr EXCEPT !.pc[p] = "close", !.by[p] = e]
    /\ UNCHANGED allButFdr

\* the leg finalize runs on, and its pipeTo
fdLeg(p) == <<p, fdr.by[p]>>
fdPipeTo(p) == <<p, IF fdr.by[p] = "c" THEN "b" ELSE "c">>

\* finalize: c.Close(), then c.pipeTo.Close()
FdFinalizeClose(p) ==
    /\ fdr.pc[p] \in {"close", "closeTo"}
    /\ fdr' = IF fdr.pc[p] = "close"
              THEN [fdClose(fdr, fdLeg(p)) EXCEPT !.pc[p] = "closeTo"]
              ELSE [fdClose(fdr, fdPipeTo(p)) EXCEPT !.pc[p] = "delTo"]
    /\ UNCHANGED allButFdr

\* finalize: c.pipeTo.manager.delConn(c.pipeTo.fd), then c.manager.delConn(c.fd)
FdFinalizeDel(p) ==
    /\ fdr.pc[p] \in {"delTo", "del"}
    /\ LET s == IF fdr.pc[p] = "delTo" THEN fdPipeTo(p) ELSE fdLeg(p) IN
       fdr' = [fdDelConn(fdr, fdManager(s), fdr.fd[s], s)
                 EXCEPT !.pc[p] = IF fdr.pc[p] = "delTo" THEN "del" ELSE "done"]
    /\ UNCHANGED allButFdr

NextFd ==
    \E p \in FdPairs :
      \/ FdAccept(p)
      \/ FdDial(p)
      \/ FdAddConn(p)
      \/ \E e \in Ends : FdFinalize(p, e)
      \/ FdFinalizeClose(p)
      \/ FdFinalizeDel(p)

SpecFd == InitFd /\ [][NextFd]_vars

\* ------------------------------------------------------------ the claims

\* C1: the body of finalize is entered at most once for a pair, however
\* the hangups, zero-byte copies and copy errors of its two legs interleave.
C1_FinalizeAtMostOnce == \A p \in Pairs : finalizeRuns[p] <= 1

\* a second caller of finalizeOnce.Do, on the backend leg, waits while the
\* finalize entered from the client leg runs
C1_Witness ==
    \E p \in Pairs :
      /\ finalizeRuns[p] = 1 /\ once[p] = "running"
      /\ \E t, u \in BagToSet(tasks) :
           /\ t.s = <<p, "c">> /\ t.pc \notin {"read", "write", "clear", "do"}
           /\ u.s = <<p, "b">> /\ u.pc = "do"

\* the goroutines that are in io.CopyBuffer on leg s
nCopying(s) ==
    LET C == {t \in BagToSet(tasks) : t.k = "copy" /\ t.s = s /\ t.pc \in {"read", "write"}}
    IN IF C = {} THEN 0 ELSE BagCardinality([t \in C |-> tasks[t]])

\* C2: at most one copy task is executing on a leg at any instant.
C2_AtMostOneCopy == \A s \in Socks : nCopying(s) <= 1

\* C3: an addConn call that has observed the cancelled context does not
\* insert its leg into the connections map.
C3_NoInsertAfterCancel ==
    [][\A p \in Pairs :
         (hnc[p].saw /\ hnc'[p] # hnc[p])
           => hncLeg(p) \notin connections'[manager(hncLeg(p))]]_vars

leastActive(act, cnt) ==
    LET A == {i \in 1..Len(act) : act[i]}
        L == {i \in A : \A j \in A : cnt[i] <= cnt[j]}
    IN IF A = {} THEN 0 ELSE CHOOSE i \in L : \A j \in L : i <= j

\* C5: nextBackend returns the active backend with the least connections,
\* the first of them in configuration order.
C5_NextBackendIsLeast == nb.called => nb.res = leastActive(nb.act, nb.cnt)

\* a connect attempt to backend b is in flight
inFlight(b) ==
    \/ hc[b] \in {"dial", "ok", "fail"}
    \/ \E p \in Pairs : hnc[p].bk = b /\ hnc[p].pc \in {"dial", "dialfail"}

\* C6, as claimed: with no attempt in flight, active is the outcome of the
\* connect attempt completed last, by the health check or by createConn.
C6_ActiveIsLastConnect ==
    \A b \in Backends : ~inFlight(b) => (active[b] <=> lastConnect[b] = "ok")

\* C6, amended: active is false initially and is the outcome of the last
\* health-check attempt or failed client dial; a successful client dial
\* leaves it as it is.
C6_ActiveIsLastRecorded ==
    \A b \in Backends : active[b] <=> lastRecorded[b] = "ok"

\* a client dial succeeded after a failed health check: the flag stays false
C6_Witness ==
    \E b \in Backends :
      ~inFlight(b) /\ lastConnect[b] = "ok" /\ lastRecorded[b] = "fail" /\ ~active[b]

\* C7: the OS close of a socket is invoked at most once, whatever the
\* number of Close calls.
C7_OsCloseAtMostOnce == \A s \in Socks : osCloses[s] <= 1

\* Close was called three times on a socket: by addConn under cancellation,
\* by finalize and by the shutdown iteration
C7_Witness == \E s \in Socks : closeCalls[s] = 3 /\ osCloses[s] = 1

\* C9: the bytes written to a socket are a prefix of the bytes the peer of
\* the other socket of the pair has written.
C9_InOrder == \A s \in Socks : IsPrefix(out[pipeTo(s)], Sent(s))

\* two bytes of one direction have been written
C9_Witness == \E s \in Socks : Len(out[s]) = 2

\* C10: when a pair is torn down because one peer has closed (no reset, the
\* other peer still open), every byte that peer wrote has been written to
\* the other socket.
C10_AllDelivered ==
    \A s \in Socks :
      (/\ once[s[1]] = "done"
       /\ peerFin[s] /\ ~peerFin[pipeTo(s)]
       /\ ~peerRst[s] /\ ~peerRst[pipeTo(s)])
      => out[pipeTo(s)] = Sent(s)

\* the pair is torn down: both sockets are closed and neither leg is in a
\* connections map or registered with an epoll
tornDown(p) ==
    \A s \in {<<p, "c">>, <<p, "b">>} :
      /\ osCloses[s] > 0
      /\ \A m \in Mgrs : s \notin connections[m] /\ s \notin registered[m]

\* a peer of the pair has closed or reset its connection
peerGone(p) == \E s \in {<<p, "c">>, <<p, "b">>} : peerFin[s] \/ peerRst[s]

\* C8: without cancellation, once a peer of an established tunnel has
\* closed (end of stream) or reset (copy error), the pair is eventually
\* torn down.
C8_EofTearsDown == \A p \in Pairs : peerGone(p) ~> tornDown(p)

\* the pair is torn down after a copy that wrote a byte before the end of
\* the stream
C8_Witness ==
    \E p \in Pairs :
      /\ tornDown(p)
      /\ \E s \in {<<p, "c">>, <<p, "b">>} :
           /\ peerFin[s] /\ out[pipeTo(s)] = Sent(s) /\ sentN[s] > 0
           /\ ~peerRst[s] /\ ~peerRst[pipeTo(s)]

\* C11: after run has returned, no socket in the manager's connections map
\* is still open.
C11_NoOpenAfterRun ==
    \A m \in Mgrs : run[m] = "done" => \A s \in connections[m] : ~osOpen(s)

\* Proxy.Run has returned: wg.Wait() is over, every run has returned
runReturned == \A m \in Mgrs : run[m] = "done"

\* run of manager m has started its goroutines (listenEpoll among them)
started(m) == lep[m].pc # "idle"

\* run of manager m has returned; if it had started its goroutines, its
\* epoll is closed and every connection its iteration visited is closed
shutDown(m) ==
    /\ run[m] = "done"
    /\ started(m) => epollClosed[m] /\ \A s \in iterSeen[m] : ~osOpen(s)

\* run of manager m has returned with its epoll closed and no open
\* connection in its map
allClosed(m) ==
    /\ run[m] = "done"
    /\ epollClosed[m]
    /\ \A s \in connections[m] : ~osOpen(s)

\* C12, as claimed: once the context is cancelled, every run eventually
\* returns having closed its notifier and its tracked connections.
C12_RunReturnsAllClosed == ctxDone ~> \A m \in Mgrs : allClosed(m)

\* C12, amended: once the context is cancelled, every frontend.run and
\* backend.run eventually returns (and so does Proxy.Run); a run that had
\* started serving has closed its epoll and the connections its iteration
\* found in the map.
C12_RunReturns == ctxDone ~> \A m \in Mgrs : shutDown(m)

\* Proxy.Run has returned after a cancellation that found the proxy
\* serving a tunnel: the listener and both epolls are closed, the sockets
\* of the tunnel too
C12_Witness ==
    /\ runReturned /\ ~listening
    /\ \A m \in Mgrs : epollClosed[m] /\ iterSeen[m] # {}
    /\ \A s \in Socks : osCloses[s] = 1

\* a copy task on leg s is blocked in a read: the socket is open and has
\* neither bytes nor an end of stream nor a reset to deliver
blockedCopy(s) ==
    /\ \E t \in BagToSet(tasks) : t.k = "copy" /\ t.s = s /\ t.pc = "read"
    /\ osOpen(s) /\ rx[s] = <<>> /\ ~peerFin[s] /\ ~peerRst[s]

\* no goroutine of serveConn or finalize is left on leg s
noTaskOn(s) == \A t \in BagToSet(tasks) : t.s # s

C14_HangupFinalizes ==
    [][\A m \in Mgrs :
         (/\ lep[m].pc = "cas" /\ lep'[m] # lep[m]
          /\ Head(lep[m].batch).mask \cap {"HUP", "RDHUP"} # {}
          /\ ~underIO[Head(lep[m].batch).s])
           => /\ tasks' = tasks (+) SetToBag({newTask("hup", Head(lep[m].batch).s)})
              /\ underIO'[Head(lep[m].batch).s]]_vars

\* a goroutine started for an event with EPOLLIN and EPOLLRDHUP is about to
\* call finalizeOnce.Do while the bytes of its leg are still unread
C14_Witness ==
    \E t \in BagToSet(tasks) :
      /\ t.k = "hup" /\ t.pc = "do"
      /\ rx[t.s] # <<>> /\ peerFin[t.s] /\ ~peerRst[t.s]
      /\ \A u \in BagToSet(tasks) : u.k # "copy"

\* serveConn goroutine t, its copy over, takes its next step
leavesCopy(t) ==
    /\ t.k = "copy" /\ t.pc = "clear"
    /\ CopiesIn(t, tasks') < CopiesIn(t, tasks)

\* C15: when the copy of a serveConn goroutine is over, the goroutine
\* clears under_io; it goes on to finalizeOnce.Do if the copy returned an
\* error or zero bytes, and ends without it otherwise.
C15_FinalizeOnErrorOrZero ==
    [][\A t \in BagToSet(tasks) :
         leavesCopy(t)
           => /\ ~underIO'[t.s]
              /\ IF t.err \/ t.n = 0
                 THEN tasks' = (tasks (-) SetToBag({t})) (+) SetToBag({[t EXCEPT !.pc = "do"]})
                 ELSE tasks' = tasks (-) SetToBag({t})]_vars

\* a copy that wrote a byte and met the end of the stream has ended
\* without the finalizer, while a copy on the other leg that read nothing
\* is about to call it
C15_Witness ==
    \E s \in Socks :
      /\ peerFin[s] /\ out[pipeTo(s)] # <<>> /\ noTaskOn(s) /\ ~underIO[s]
      /\ finalizeRuns[s[1]] = 0
      /\ \E t \in BagToSet(tasks) : t.k = "copy" /\ t.n = 0 /\ t.pc = "do"

\* C16: with two backends that stay active and connections opened one
\* after another, after every connection the connection counts of the two
\* backends differ by at most 1.
C16_Balanced ==
    ~nb.called => /\ nb.cnt[1] - nb.cnt[2] <= 1
                  /\ nb.cnt[2] - nb.cnt[1] <= 1

\* ten connections have been opened: five to each backend
C16_Witness == ~nb.called /\ nb.cnt = <<5, 5>>

\* C17: when handleNewConnection has returned without a remote connection
\* (no active backend, or the dial failed), the client socket is closed,
\* and no leg of the pair is in a connections map or registered with an
\* epoll.
C17_FailedSetupClosesClient ==
    \A p \in Pairs :
      hnc[p].pc = "failed"
        => /\ osCloses[<<p, "c">>] = 1
           /\ ~est[<<p, "b">>]
           /\ \A m \in Mgrs : \A e \in Ends :
                <<p, e>> \notin connections[m] /\ <<p, e>> \notin registered[m]

\* handleNewConnection has returned after the dial to the chosen backend
\* failed: the backend is inactive and the client socket closed
C17_Witness ==
    \E p \in Pairs :
      /\ hnc[p].pc = "failed" /\ est[<<p, "c">>] /\ osCloses[<<p, "c">>] = 1
      /\ lastRecorded[hnc[p].bk] = "fail" /\ ~active[hnc[p].bk] /\ ~ctxDone

\* no connect attempt has just failed: the targets are reachable
reachable ==
    /\ \A b \in Backends : hc[b] # "fail"
    /\ \A p \in Pairs : hnc[p].pc # "dialfail"

\* the pair is a tunnel to its backend: both legs are in their maps and
\* registered
tunnel(p) ==
    /\ hnc[p].pc = "done"
    /\ \A e \in Ends : /\ <<p, e>> \in connections[manager(<<p, e>>)]
                       /\ <<p, e>> \in registered[manager(<<p, e>>)]

\* C18: if from some point on the connect attempts succeed, the health
\* check sets every backend active for good, and a client whose
\* handleNewConnection starts while the backend is active and the target
\* stays reachable is given a tunnel.
C18_RecoversAndServes ==
    /\ <>[]reachable => <>[](\A b \in Backends : active[b])
    /\ \A p \in Pairs :
         [](hnc[p].pc = "next" /\ (\A b \in Backends : active[b]) /\ []reachable
              => <>tunnel(p))

\* the target was down at the last attempt and the backend is inactive;
\* the health check has now connected and is about to set it active
C18_Witness ==
    \E b \in Backends : hc[b] = "ok" /\ ~active[b] /\ lastRecorded[b] = "fail"

\* C19: once finalize of a pair has returned, no cancellation having
\* occurred, neither leg of the pair is in a connections map.
C19_FinalizedNotInMap ==
    \A p \in Pairs :
      (once[p] = "done" /\ ~ctxDone)
        => \A m \in Mgrs : \A e \in Ends : <<p, e>> \notin connections[m]

\* the ports of the configuration, app after app
allPorts(cfg) ==
    {ij \in (1..Len(cfg)) \X (1..MaxPorts) : ij[2] <= Len(cfg[ij[1]].Ports)}

\* the same port is configured twice, in two apps or in one
HasDuplicatePort(cfg) ==
    \E a, b \in allPorts(cfg) :
      a # b /\ cfg[a[1]].Ports[a[2]] = cfg[b[1]].Ports[b[2]]

\* C20: when a port appears twice in the configuration, NewProxy does not
\* return a Proxy and no frontend is run.
C20_DuplicatePortFails ==
    HasDuplicatePort(px.cfg)
      => /\ px.pc \in {"new", "failed"}
         /\ \A k \in 1..Len(px.fpc) : px.fpc[k] = "idle"

\* C21: when the dial to the backend chosen by nextBackend fails,
\* createRemoteConnection returns the error having dialed that backend only,
\* once; the backend is inactive and the flags of the other backends, active
\* or not, are as they were.
C21_FailedDialNoRetry ==
    /\ Len(nb.dials) <= 1
    /\ (nb.pc = "err" /\ nb.dials # <<>>)
         => /\ nb.dials = <<nb.res>>
            /\ ~nb.act[nb.res]
            /\ \A i \in 1..NumBnds : i # nb.res => nb.act[i] = nb.act0[i]

\* the dial has failed while another backend is active
C21_Witness ==
    /\ nb.pc = "err"
    /\ nb.dials # <<>>
    /\ \E i \in 1..NumBnds : i # nb.res /\ nb.act[i]

\* listenEpoll of manager m drops the event it is serving: the fd is not a
\* key of the map, or the leg's under_io is set already
dropsEvent(m) ==
    /\ lep'[m] # lep[m]
    /\ \/ lep[m].pc = "lookup" /\ Head(lep[m].batch).s \notin connections[m]
       \/ lep[m].pc = "cas" /\ underIO[Head(lep[m].batch).s]

\* C22: serveEvent on an event for an fd that is not in the map, or for a
\* leg whose under_io is true, starts no goroutine and changes neither the
\* maps, the epoll registrations, the under_io flags, the finalizers nor the
\* sockets.
C22_DroppedEventNoEffect ==
    [][\A m \in Mgrs :
         dropsEvent(m)
           => UNCHANGED <<tasks, connections, registered, epollClosed,
                          underIO, once, finalizeRuns, closed, osCloses,
                          closeCalls, est, out, rx>>]_vars

\* the frontend is about to drop an event for a leg that is under IO while
\* the backend is about to drop an event for a leg finalize has removed
C22_Witness ==
    \E m, k \in Mgrs :
      /\ lep[m].pc = "cas" /\ underIO[Head(lep[m].batch).s]
      /\ Head(lep[m].batch).s \in connections[m]
      /\ lep[k].pc = "lookup" /\ Head(lep[k].batch).s \notin connections[k]

\* neither listenForNewConn nor the frontend's listenEpoll has been started
\* and no client connection has been accepted
noLoops ==
    /\ acceptor = "idle"
    /\ lep["F"].pc = "idle"
    /\ \A p \in Pairs : ~est[<<p, "c">>]

\* C23: while frontend.run is in its bind loop neither loop has been
\* started and nothing accepted; run leaves the bind loop only by a bind
\* that succeeded with the context not done, which starts both loops, or by
\* returning on a cancelled context; and once it has returned without a
\* bind, no loop is ever started and no connection ever accepted.
C23_BindBeforeLoops ==
    /\ [](run["F"] = "bind" => noLoops)
    /\ [][(run["F"] = "bind" /\ run'["F"] # "bind")
            => \/ /\ run'["F"] = "serve" /\ ~ctxDone
                  /\ acceptor' = "accept" /\ lep'["F"].pc = "wait"
               \/ /\ run'["F"] = "done" /\ ctxDone /\ noLoops']_vars
    /\ [][(run["F"] = "done" /\ noLoops) => noLoops']_vars

\* run has returned on a cancelled context without a bind, no loop started
C23_Witness == run["F"] = "done" /\ ctxDone /\ noLoops

\* a goroutine started by serveEvent for leg s is alive (its serveConn, its
\* finalizeOnce.Do or the finalize it entered), or the finalize of the pair
\* is running
servedBy(s) ==
    \/ \E t \in BagToSet(tasks) : t.s = s
    \/ once[s[1]] = "running"

\* C24: a leg that is in its manager's map with under_io true has a
\* goroutine that will clear the flag or remove the leg.
C24_UnderIOHasTask ==
    \A s \in Socks :
      (underIO[s] /\ \E m \in Mgrs : s \in connections[m]) => servedBy(s)

\* leg s has been added by handleNewConnection and the finalize of its pair
\* has not been entered
fdLive(s) ==
    \/ fdr.pc[s[1]] = "serving"
    \/ fdr.pc[s[1]] = "addedC" /\ s[2] = "c"

\* C25: a leg of a live pair stays in its manager's map and in the epoll
\* interest list while another pair's finalize runs its delConn calls, also
\* when the leg got the descriptor number of a socket that finalize closed.
C25_DelConnOwnLegs ==
    \A s \in FdSocks :
      fdLive(s) => /\ <<fdr.fd[s], s>> \in fdr.conns[fdManager(s)]
                   /\ <<fdr.fd[s], s>> \in fdr.reg[fdManager(s)]

====
